---------------------------- MODULE Spec2Model ----------------------------
(***************************************************************************)
(* A model of server.js: the Express application with its middleware chain *)
(* (helmet, express.json, the rate limiter, cors), the health route and    *)
(* the POST /summarize handler with its call to the completion service.    *)
(*                                                                         *)
(* Strings.  Two encodings are used.                                       *)
(*  - The request text is a run-length encoded string: a sequence of runs  *)
(*    [c |-> character, n |-> repetitions], so that texts of 20000         *)
(*    characters are handled with their real lengths.                      *)
(*  - The completion service's reply is a sequence of symbols: a symbol is *)
(*    one structural character of JSON, or a maximal run of other          *)
(*    characters (a word, a literal, a number).                            *)
(* JavaScript values are pairs <<kind, payload>>.                           *)
(***************************************************************************)
EXTENDS Integers, Sequences, FiniteSets, TLC

VARIABLES
    now,        \* Date.now(), in milliseconds
    store,      \* the limiter's MemoryStore: client -> [hits, resetTime]
    allowed,    \* ALLOWED_ORIGINS, read once at start
    conn,       \* slot -> the request being served on it (or Idle)
    window      \* history: client -> [start, count] of inbound requests

vars == <<now, store, allowed, conn, window>>

----------------------------------------------------------------------------
(* Program constants *)

WindowMs == 60000
Max == 30
MinLen == 50
MaxLen == 20000

(* Bounds of the model *)

MaxInFlight == 1
MaxTicks == 2
MaxBullets == 2
MaxSpecial == 2
MaxOver == 2
MaxSkipped == 1
MaxOther == 1

----------------------------------------------------------------------------
(* JavaScript values *)

Undef == <<"undef", <<>> >>
Null == <<"null", <<>> >>
Bool(b) == <<"bool", <<IF b THEN "true" ELSE "false">> >>
Num(d) == <<"num", <<d>> >>
Str(s) == <<"str", s>>
Arr(a) == <<"arr", a>>
Obj(members) == <<"obj", members>>

Kind(x) == x[1]
Payload(x) == x[2]

\* ToBoolean: what `!x`, `x || d` and `x ? a : b` test.
Truthy(x) ==
    CASE Kind(x) \in {"undef", "null"} -> FALSE
      [] Kind(x) = "bool" -> Payload(x) = <<"true">>
      [] Kind(x) = "num" -> Payload(x) # <<"0">>
      [] Kind(x) = "str" -> Payload(x) # <<>>
      [] OTHER -> TRUE

\* x || d
OrElse(x, d) == IF Truthy(x) THEN x ELSE d

----------------------------------------------------------------------------
(* The request text: run-length encoded strings *)

Run(c, n) == [c |-> c, n |-> n]

\* The characters String.prototype.trim removes and \s matches (the tab and
\* the newline are written by name).
WhiteSpace == {" ", "TAB", "NL"}

RECURSIVE StrLen(_)
StrLen(s) == IF s = <<>> THEN 0 ELSE s[1].n + StrLen(Tail(s))

RECURSIVE TrimStart(_)
TrimStart(s) ==
    IF s = <<>> THEN s
    ELSE IF s[1].c \in WhiteSpace THEN TrimStart(Tail(s)) ELSE s

RECURSIVE TrimEnd(_)
TrimEnd(s) ==
    IF s = <<>> THEN s
    ELSE IF s[Len(s)].c \in WhiteSpace
         THEN TrimEnd(SubSeq(s, 1, Len(s) - 1)) ELSE s

\* text.trim()
Trim(s) == TrimEnd(TrimStart(s))

\* validator's escape: the replacement of each character. The double quote,
\* the apostrophe, the backslash and the backtick are written by name.
Entity(c) ==
    CASE c = "&" -> <<"&", "a", "m", "p", ";">>
      [] c = "QUOTE" -> <<"&", "q", "u", "o", "t", ";">>
      [] c = "APOS" -> <<"&", "#", "x", "2", "7", ";">>
      [] c = "<" -> <<"&", "l", "t", ";">>
      [] c = ">" -> <<"&", "g", "t", ";">>
      [] c = "/" -> <<"&", "#", "x", "2", "F", ";">>
      [] c = "BACKSLASH" -> <<"&", "#", "x", "5", "C", ";">>
      [] c = "BACKTICK" -> <<"&", "#", "9", "6", ";">>
      [] OTHER -> <<c>>

Chars(cs) == [i \in 1..Len(cs) |-> Run(cs[i], 1)]

RECURSIVE Repeat(_, _)
Repeat(s, n) == IF n <= 0 THEN <<>> ELSE s \o Repeat(s, n - 1)

\* escape(trimmed)
RECURSIVE Escape(_)
Escape(s) ==
    IF s = <<>> THEN <<>>
    ELSE (IF Entity(s[1].c) = <<s[1].c>>
          THEN <<s[1]>>
          ELSE Repeat(Chars(Entity(s[1].c)), s[1].n)) \o Escape(Tail(s))

\* .replace(/\s+/g, " "); prevWs: the previous character was white space.
RECURSIVE Collapse(_, _)
Collapse(s, prevWs) ==
    IF s = <<>> THEN <<>>
    ELSE IF s[1].c \in WhiteSpace
         THEN (IF prevWs THEN <<>> ELSE <<Run(" ", 1)>>)
              \o Collapse(Tail(s), TRUE)
         ELSE <<s[1]>> \o Collapse(Tail(s), FALSE)

\* .slice(0, k)
RECURSIVE Slice(_, _)
Slice(s, k) ==
    IF s = <<>> \/ k <= 0 THEN <<>>
    ELSE IF s[1].n <= k
         THEN <<s[1]>> \o Slice(Tail(s), k - s[1].n)
         ELSE <<Run(s[1].c, k)>>

\* const safeText = escape(trimmed).replace(/\s+/g, " ").slice(0, 20000)
SafeText(trimmed) == Slice(Collapse(Escape(trimmed), FALSE), MaxLen)

----------------------------------------------------------------------------
(* The reply of the completion service: sequences of symbols *)

\* The double quote, as a symbol of a reply.
DQ == "QUOTE"

JsonWs == {" ", "NL"}
Digits == {"0", "5"}

Fail == [ok |-> FALSE, val |-> Undef, pos |-> 0]
Parsed(v, p) == [ok |-> TRUE, val |-> v, pos |-> p]

RECURSIVE SkipWs(_, _)
SkipWs(t, i) ==
    IF i <= Len(t) /\ t[i] \in JsonWs THEN SkipWs(t, i + 1) ELSE i

\* The index of the first double quote at or after i, 0 when there is none.
RECURSIVE StringEnd(_, _)
StringEnd(t, i) ==
    IF i > Len(t) THEN 0
    ELSE IF t[i] = DQ THEN i ELSE StringEnd(t, i + 1)

\* A string literal whose opening quote is t[i].
ParseString(t, i) ==
    LET j == StringEnd(t, i + 1)
    IN  IF j = 0 THEN Fail ELSE Parsed(Str(SubSeq(t, i + 1, j - 1)), j + 1)

\* JSON's grammar: a value from position i0; the elements of an array and
\* the members of an object from position i, with those read so far.
RECURSIVE ParseValue(_, _)
RECURSIVE ParseElements(_, _, _)
RECURSIVE ParseMembers(_, _, _)

ParseValue(t, i0) ==
    LET i == SkipWs(t, i0)
    IN  IF i > Len(t) THEN Fail
        ELSE CASE t[i] = "{" ->
                    LET j == SkipWs(t, i + 1)
                    IN  IF j <= Len(t) /\ t[j] = "}"
                        THEN Parsed(Obj(<<>>), j + 1)
                        ELSE ParseMembers(t, j, <<>>)
               [] t[i] = "[" ->
                    LET j == SkipWs(t, i + 1)
                    IN  IF j <= Len(t) /\ t[j] = "]"
                        THEN Parsed(Arr(<<>>), j + 1)
                        ELSE ParseElements(t, j, <<>>)
               [] t[i] = DQ -> ParseString(t, i)
               [] t[i] = "true" -> Parsed(Bool(TRUE), i + 1)
               [] t[i] = "false" -> Parsed(Bool(FALSE), i + 1)
               [] t[i] = "null" -> Parsed(Null, i + 1)
               [] t[i] \in Digits -> Parsed(Num(t[i]), i + 1)
               [] OTHER -> Fail

ParseElements(t, i, acc) ==
    LET r == ParseValue(t, i)
    IN  IF ~r.ok THEN Fail
        ELSE LET j == SkipWs(t, r.pos)
             IN  IF j > Len(t) THEN Fail
                 ELSE IF t[j] = ","
                      THEN ParseElements(t, j + 1, Append(acc, r.val))
                 ELSE IF t[j] = "]"
                      THEN Parsed(Arr(Append(acc, r.val)), j + 1)
                 ELSE Fail

ParseMembers(t, i0, acc) ==
    LET i == SkipWs(t, i0)
    IN  IF i > Len(t) \/ t[i] # DQ THEN Fail
        ELSE LET key == ParseString(t, i)
             IN  IF ~key.ok THEN Fail
                 ELSE LET c == SkipWs(t, key.pos)
                      IN  IF c > Len(t) \/ t[c] # ":" THEN Fail
                          ELSE LET r == ParseValue(t, c + 1)
                               IN  IF ~r.ok THEN Fail
                                   ELSE LET j == SkipWs(t, r.pos)
                                            m == Append(acc,
                                                   <<Payload(key.val), r.val>>)
                                        IN  IF j > Len(t) THEN Fail
                                            ELSE IF t[j] = ","
                                                 THEN ParseMembers(t, j + 1, m)
                                            ELSE IF t[j] = "}"
                                                 THEN Parsed(Obj(m), j + 1)
                                            ELSE Fail

\* JSON.parse(t): [ok, val]; ok is FALSE where JSON.parse throws.
JSONParse(t) ==
    LET r == ParseValue(t, 1)
    IN  IF r.ok /\ SkipWs(t, r.pos) > Len(t)
        THEN [ok |-> TRUE, val |-> r.val]
        ELSE [ok |-> FALSE, val |-> Undef]

\* textResp.match(/\{[\s\S]*\}/): [found, span], the span from the first
\* opening brace to the last closing brace after it.
FirstOpen(t) ==
    IF \E i \in 1..Len(t) : t[i] = "{"
    THEN CHOOSE i \in 1..Len(t) :
            t[i] = "{" /\ \A j \in 1..(i - 1) : t[j] # "{"
    ELSE 0

LastCloseAfter(t, f) ==
    IF \E i \in (f + 1)..Len(t) : t[i] = "}"
    THEN CHOOSE i \in (f + 1)..Len(t) :
            t[i] = "}" /\ \A j \in (i + 1)..Len(t) : t[j] # "}"
    ELSE 0

\* Mutant: a lazy match, to the first closing brace after the opening one.
BraceMatchLazy(t) ==
    LET f == FirstOpen(t)
        l == IF f = 0 \/ ~\E i \in (f + 1)..Len(t) : t[i] = "}" THEN 0
             ELSE CHOOSE i \in (f + 1)..Len(t) :
                    t[i] = "}" /\ \A j \in (f + 1)..(i - 1) : t[j] # "}"
    IN  IF f = 0 \/ l = 0
        THEN [found |-> FALSE, span |-> <<>>]
        ELSE [found |-> TRUE, span |-> SubSeq(t, f, l)]

BraceMatch(t) ==
    LET f == FirstOpen(t)
        l == IF f = 0 THEN 0 ELSE LastCloseAfter(t, f)
    IN  IF f = 0 \/ l = 0
        THEN [found |-> FALSE, span |-> <<>>]
        ELSE [found |-> TRUE, span |-> SubSeq(t, f, l)]

----------------------------------------------------------------------------
(* JavaScript operations of the handler on parsed values *)

\* x.key for x neither null nor undefined: the last member of that name of
\* an object, undefined on every other value.
RECURSIVE Lookup(_, _, _)
Lookup(members, key, i) ==
    IF i = 0 THEN Undef
    ELSE IF members[i][1] = key THEN members[i][2]
    ELSE Lookup(members, key, i - 1)

Get(x, key) == IF Kind(x) = "obj" THEN Lookup(Payload(x), key, Len(Payload(x))) ELSE Undef

\* x.key throws a TypeError on null and undefined.
GetThrows(x) == Kind(x) \in {"null", "undef"}

\* String(x)
RECURSIVE ToStr(_)
RECURSIVE Join(_, _)
ToStr(x) ==
    CASE Kind(x) \in {"str", "num", "bool"} -> Payload(x)
      [] Kind(x) = "null" -> <<"null">>
      [] Kind(x) = "undef" -> <<"undefined">>
      [] Kind(x) = "arr" -> Join(Payload(x), 1)
      [] OTHER -> <<"[object Object]">>

\* Array.prototype.join(","), from element i on.
Join(a, i) ==
    IF i > Len(a) THEN <<>>
    ELSE (IF i > 1 THEN <<",">> ELSE <<>>)
         \o (IF Kind(a[i]) \in {"null", "undef"} THEN <<>> ELSE ToStr(a[i]))
         \o Join(a, i + 1)

\* toLowerCase, symbol by symbol.
Lower(sym) ==
    CASE sym = "PRO" -> "pro"
      [] sym = "Pro" -> "pro"
      [] sym = "WARNING" -> "warning"
      [] sym = "Warning" -> "warning"
      [] sym = "CON" -> "con"
      [] sym = "Secure" -> "secure"
      [] sym = "Risky" -> "risky"
      [] sym = "Not" -> "not"
      [] sym = "Safe" -> "safe"
      [] sym = "Sure" -> "sure"
      [] sym = "[object Object]" -> "[object object]"
      [] OTHER -> sym

ToLowerCase(s) == [i \in 1..Len(s) |-> Lower(s[i])]

IsArray(x) == Kind(x) = "arr"

----------------------------------------------------------------------------
(* Responses *)

NoResp ==
    [status |-> 0, has |-> {}, error |-> "", summary |-> Undef,
     bullets |-> <<>>, rating |-> Undef]

\* res.status(st).json({ error: msg })
ErrorResp(st, msg) == [NoResp EXCEPT !.status = st, !.has = {"error"}, !.error = msg]

\* Express's own error page for an error passed to next(): no JSON body.
DefaultErrorResp(st) == [NoResp EXCEPT !.status = st]

\* res.json({ status: "ok" })
HealthResp == [NoResp EXCEPT !.status = 200, !.has = {"status"}]

\* res.json({ summary, bullets: cleanedBullets, rating })
ResultResp(summary, bullets, rating) ==
    [status |-> 200, has |-> {"summary", "bullets", "rating"}, error |-> "",
     summary |-> summary, bullets |-> bullets, rating |-> rating]

\* Mutant: the catch block answers with the message of the error it caught.
InternalErrorLeaky == ErrorResp(500, "OpenAI did not return parseable JSON.")

InternalError == ErrorResp(500, "Internal server error")

----------------------------------------------------------------------------
(* POST /summarize, up to the call of the completion service *)

EsText == <<Run("e", 1), Run("s", 1)>>

\* const lang = (language === "es") ? "es" : "en"
Lang(language) ==
    IF Kind(language) = "str" /\ Payload(language) = EsText THEN "es" ELSE "en"

\* Mutant: no check of the upper length.
ValidationErrorNoCeiling(text) ==
    IF ~Truthy(text) \/ Kind(text) # "str"
    THEN "Invalid payload: text required"
    ELSE IF StrLen(Trim(Payload(text))) < MinLen THEN "Text too short" ELSE ""

\* Mutant: the lower bound is exclusive.
ValidationErrorOffByOne(text) ==
    IF ~Truthy(text) \/ Kind(text) # "str"
    THEN "Invalid payload: text required"
    ELSE LET trimmed == Trim(Payload(text))
         IN  IF StrLen(trimmed) <= MinLen THEN "Text too short"
             ELSE IF StrLen(trimmed) > MaxLen THEN "Text too long"
             ELSE ""

\* The checks of the payload: the error message, "" when the text passes.
ValidationError(text) ==
    IF ~Truthy(text) \/ Kind(text) # "str"
    THEN "Invalid payload: text required"
    ELSE LET trimmed == Trim(Payload(text))
         IN  IF StrLen(trimmed) < MinLen THEN "Text too short"
             ELSE IF StrLen(trimmed) > MaxLen THEN "Text too long"
             ELSE ""

\* The user message: the language named in the template and the text
\* appended to it.
Prompt(text, language) ==
    [language |-> IF Lang(language) = "es" THEN "Spanish" ELSE "English",
     text |-> SafeText(Trim(Payload(text)))]

NoPrompt == [language |-> "", text |-> <<>>]

----------------------------------------------------------------------------
(* POST /summarize, from the reply of the completion service on *)

\* The two attempts to parse textResp: [ok, val, fallback].
ParseReply(textResp) ==
    LET first == JSONParse(textResp)
        m == BraceMatch(textResp)
        second == IF m.found THEN JSONParse(m.span)
                  ELSE [ok |-> FALSE, val |-> Undef]
    IN  IF first.ok
        THEN [ok |-> TRUE, val |-> first.val, fallback |-> FALSE]
        ELSE [ok |-> second.ok, val |-> second.val, fallback |-> TRUE]

\* Mutant: the type is compared without lower-casing.
CleanBulletCaseSensitive(b) ==
    LET t == IF Truthy(b) /\ Truthy(Get(b, <<"type">>))
             THEN ToStr(Get(b, <<"type">>))
             ELSE <<"con">>
        txt == IF Truthy(b) /\ Truthy(Get(b, <<"text">>))
               THEN ToStr(Get(b, <<"text">>))
               ELSE <<>>
    IN  [type |-> IF t = <<"pro">> THEN Str(<<"pro">>)
                  ELSE IF t = <<"warning">> THEN Str(<<"warning">>)
                  ELSE Str(<<"con">>),
         text |-> Str(txt)]

\* One element of cleanedBullets.
CleanBullet(b) ==
    LET t == IF Truthy(b) /\ Truthy(Get(b, <<"type">>))
             THEN ToLowerCase(ToStr(Get(b, <<"type">>)))
             ELSE <<"con">>
        txt == IF Truthy(b) /\ Truthy(Get(b, <<"text">>))
               THEN ToStr(Get(b, <<"text">>))
               ELSE <<>>
    IN  [type |-> IF t = <<"pro">> THEN Str(<<"pro">>)
                  ELSE IF t = <<"warning">> THEN Str(<<"warning">>)
                  ELSE Str(<<"con">>),
         text |-> Str(txt)]

\* The shape validation and the response; reading a property of null throws
\* and the catch block answers.
Normalize(parsed) ==
    IF GetThrows(parsed) THEN InternalError
    ELSE LET summary == OrElse(Get(parsed, <<"summary">>), Str(<<>>))
             given == Get(parsed, <<"bullets">>)
             bullets == IF IsArray(given) THEN Payload(given) ELSE <<>>
             rating == OrElse(Get(parsed, <<"rating">>), Str(<<"Risky">>))
         IN  ResultResp(summary,
                        [i \in 1..Len(bullets) |-> CleanBullet(bullets[i])],
                        rating)

\* An outcome of callOpenAIChat: [k |-> "error"] when axios rejects (transport
\* failure, timeout, error status), else [k |-> "data", content |-> the value
\* of aiResp.choices?.[0]?.message?.content].
Rejected == [k |-> "error", content |-> Undef]
Data(content) == [k |-> "data", content |-> content]

\* The handler after the await: [resp, parsed, fallback].
Complete(outcome) ==
    LET none == [resp |-> InternalError, parsed |-> Undef, fallback |-> FALSE]
    IN  IF outcome.k = "error" \/ ~Truthy(outcome.content) THEN none
        ELSE LET r == ParseReply(Payload(outcome.content))
             IN  IF ~r.ok THEN [none EXCEPT !.fallback = r.fallback]
                 ELSE [resp |-> Normalize(r.val), parsed |-> r.val,
                       fallback |-> r.fallback]

----------------------------------------------------------------------------
(* The middleware chain *)

Clients == {"c1", "c2"}
Slots == 1..MaxInFlight

NoBody == [k |-> "none", text |-> Undef, language |-> Undef]
NoReq == [client |-> "", method |-> "", path |-> "", origin |-> "", body |-> NoBody]

Idle ==
    [stage |-> "idle", req |-> NoReq, trace |-> <<>>, nth |-> 0,
     prompt |-> NoPrompt, reply |-> Rejected, parsed |-> Undef,
     fallback |-> FALSE, resp |-> NoResp]

\* What a request carries along the chain: the request, the middleware that
\* ran, whether a response ended it, whether the handler is suspended at its
\* await, the store as the chain leaves it.
StartCtx(req, st) ==
    [req |-> req, trace |-> <<>>, ended |-> FALSE, awaiting |-> FALSE,
     store |-> st, prompt |-> NoPrompt, resp |-> NoResp]

End(ctx, resp) == [ctx EXCEPT !.ended = TRUE, !.resp = resp]

\* app.use(helmet()): response headers only.
Helmet(ctx) == ctx

\* app.use(express.json({ limit: "250kb" })): reads and parses the body, and
\* passes an oversized or malformed one to next(err).
JsonBody(ctx) ==
    CASE ctx.req.body.k = "large" -> End(ctx, DefaultErrorResp(413))
      [] ctx.req.body.k = "malformed" -> End(ctx, DefaultErrorResp(400))
      [] OTHER -> ctx

\* The store's increment for the client at time t: a record whose window has
\* ended starts anew.
Increment(entry, t) ==
    LET e == IF entry.resetTime <= t
             THEN [hits |-> 0, resetTime |-> t + WindowMs]
             ELSE entry
    IN  [e EXCEPT !.hits = @ + 1]

\* app.use(limiter), keyed by the client's address.
RateLimit(ctx, t) ==
    LET c == ctx.req.client
        e == Increment(ctx.store[c], t)
        counted == [ctx EXCEPT !.store[c] = e]
    IN  IF e.hits > Max
        THEN End(counted, ErrorResp(429, "Too many requests, please try again later."))
        ELSE counted

\* app.use(cors(...)): the origin callback, in strict mode only.
Cors(ctx, origins) ==
    IF origins = {} \/ ctx.req.origin = "" \/ ctx.req.origin \in origins
    THEN ctx
    ELSE End(ctx, DefaultErrorResp(500))

\* The start of the POST /summarize handler, to its await.
Summarize(ctx) ==
    LET body == ctx.req.body
        err == ValidationError(body.text)
    IN  IF err # "" THEN End(ctx, ErrorResp(400, err))
        ELSE [ctx EXCEPT !.ended = TRUE, !.awaiting = TRUE,
                         !.prompt = Prompt(body.text, body.language)]

\* app.get("/") and app.post("/summarize"); no route: Express answers 404.
Route(ctx) ==
    CASE ctx.req.method = "GET" /\ ctx.req.path = "/" -> End(ctx, HealthResp)
      [] ctx.req.method = "POST" /\ ctx.req.path = "/summarize" -> Summarize(ctx)
      [] OTHER -> End(ctx, DefaultErrorResp(404))

\* The order of registration.
Middleware == <<"helmet", "json", "limiter", "cors", "route">>

Apply(name, ctx, t, origins) ==
    CASE name = "helmet" -> Helmet(ctx)
      [] name = "json" -> JsonBody(ctx)
      [] name = "limiter" -> RateLimit(ctx, t)
      [] name = "cors" -> Cors(ctx, origins)
      [] OTHER -> Route(ctx)

RECURSIVE RunChain(_, _, _, _)
RunChain(i, ctx, t, origins) ==
    IF i > Len(Middleware) \/ ctx.ended THEN ctx
    ELSE RunChain(i + 1,
                  Apply(Middleware[i],
                        [ctx EXCEPT !.trace = Append(@, Middleware[i])],
                        t, origins),
                  t, origins)

\* History: the 60-second window of the client's inbound requests, opened by
\* the first request after the previous window has elapsed, with the number
\* of its requests (count) and of those the limiter never saw (skipped).
Arrival(w, t, seen) ==
    LET k == IF seen THEN 0 ELSE 1
    IN  IF w.count = 0 \/ t >= w.start + WindowMs
        THEN [start |-> t, count |-> 1, skipped |-> k]
        ELSE [w EXCEPT !.count = @ + 1, !.skipped = @ + k]

----------------------------------------------------------------------------
(* Inputs *)

Plain(n) == IF n = 0 THEN <<>> ELSE <<Run("a", n)>>

\* Serialization of a value as the symbols of a reply.
RECURSIVE Ser(_)
RECURSIVE SerElements(_, _)
RECURSIVE SerMembers(_, _)
Ser(x) ==
    CASE Kind(x) = "str" -> <<DQ>> \o Payload(x) \o <<DQ>>
      [] Kind(x) \in {"num", "bool"} -> Payload(x)
      [] Kind(x) = "arr" -> <<"[">> \o SerElements(Payload(x), 1) \o <<"]">>
      [] Kind(x) = "obj" -> <<"{">> \o SerMembers(Payload(x), 1) \o <<"}">>
      [] OTHER -> <<"null">>

SerElements(a, i) ==
    IF i > Len(a) THEN <<>>
    ELSE (IF i > 1 THEN <<",">> ELSE <<>>) \o Ser(a[i]) \o SerElements(a, i + 1)

SerMembers(m, i) ==
    IF i > Len(m) THEN <<>>
    ELSE (IF i > 1 THEN <<",">> ELSE <<>>)
         \o <<DQ>> \o m[i][1] \o <<DQ, ":">> \o Ser(m[i][2])
         \o SerMembers(m, i + 1)

\* The member of that name, left out when the value is undefined.
Member(name, x) == IF Kind(x) = "undef" THEN <<>> ELSE << <<<<name>>, x>> >>

SeqsUpTo(S, n) == UNION {[1..k -> S] : k \in 0..n}

GoodResult ==
    Obj(<< <<<<"summary">>, Str(<<"x">>)>>,
           <<<<"bullets">>, Arr(<<>>)>>,
           <<<<"rating">>, Str(<<"Secure">>)>> >>)

\* Request texts: leading white space, a run of plain characters, up to
\* MaxSpecial characters that escape or collapse, a plain tail, trailing
\* white space; and values that are no strings.
LeadWs == {<<>>, <<Run(" ", 1)>>, <<Run("NL", 2)>>}
TrailWs == {<<>>, <<Run(" ", 1)>>, <<Run("TAB", 3)>>}
PlainLens == {0, 1, MinLen - 2, MinLen - 1, MinLen, MinLen + 1}
                \cup ((MaxLen - 6)..(MaxLen + 1))
SpecialChars == {"&", "<", " "}
TailRuns == {<<>>, <<Run("b", 3)>>}

TextStrings ==
    {l \o Plain(n) \o Chars(m) \o b \o t :
        l \in LeadWs, n \in PlainLens, m \in SeqsUpTo(SpecialChars, MaxSpecial),
        b \in TailRuns, t \in TrailWs}

TextValues ==
    {Str(x) : x \in TextStrings}
        \cup {Undef, Null, Num("5"), Num("0"), Bool(TRUE), Obj(<<>>)}

Languages == {Undef, Str(EsText), Str(<<Run("e", 1), Run("n", 1)>>)}

JsonBodyOf(text, language) == [k |-> "json", text |-> text, language |-> language]

Post(c, origin, body) ==
    [client |-> c, method |-> "POST", path |-> "/summarize",
     origin |-> origin, body |-> body]

SmallTexts == {Str(Plain(MinLen)), Str(Plain(MinLen - 1))}

TextRequests ==
    {Post("c1", "", JsonBodyOf(x, Undef)) : x \in TextValues}
        \cup {Post("c1", "", JsonBodyOf(x, l)) : x \in SmallTexts, l \in Languages}

\* The requests of the server's specification: the first client's with every
\* origin and body, the other clients' plain ones.
Origins == {"", "https://a.example", "https://b.example"}
GetRoot(c) ==
    [client |-> c, method |-> "GET", path |-> "/", origin |-> "", body |-> NoBody]

Requests ==
    {Post("c1", o, JsonBodyOf(Str(Plain(MinLen)), Undef)) : o \in Origins}
        \cup {Post("c1", "", [NoBody EXCEPT !.k = k]) : k \in {"large", "malformed"}}
        \cup {GetRoot(c) : c \in Clients}
        \cup {Post(c, "", JsonBodyOf(Str(Plain(MinLen)), Undef)) : c \in Clients}

\* The requests a client may send within one window: the first client enough
\* to pass the limit, the other ones a few.
Cap(c) == IF c = "c1" THEN Max + MaxOver ELSE MaxOther

SmallOutcomes == {Rejected, Data(Str(Ser(GoodResult))), Data(Str(<<"Sure">>))}

\* Replies: values the service may return as JSON, alone or inside prose,
\* and texts that are no JSON.
Ratings ==
    {Undef, Null, Num("0"), Str(<<>>), Str(<<"Secure">>), Str(<<"Risky">>),
     Str(<<"Not", " ", "secure">>), Str(<<"Safe">>)}
Summaries == {Undef, Str(<<"x">>), Num("5")}
BulletElements ==
    {Null, Str(<<"pro">>),
     Obj(<< <<<<"type">>, Str(<<"PRO">>)>>, <<<<"text">>, Str(<<"t">>)>> >>),
     Obj(<< <<<<"type">>, Str(<<"Warning">>)>> >>),
     Obj(<< <<<<"type">>, Str(<<"bad">>)>>, <<<<"text">>, Num("5")>> >>),
     Obj(<< <<<<"type">>, Arr(<<Str(<<"Pro">>)>>)>>,
            <<<<"text">>, Arr(<<Null, Num("0")>>)>> >>)}
BulletLists ==
    {Undef, Null, Str(<<"x">>)}
        \cup {Arr(a) : a \in SeqsUpTo(BulletElements, MaxBullets)}

ResultValues ==
    {Obj(Member("summary", sm) \o Member("bullets", b) \o Member("rating", r)) :
        sm \in Summaries, b \in BulletLists, r \in Ratings}
        \cup {Null, Num("5"), Num("0"), Bool(TRUE), Str(<<"x">>),
              Str(<<"a", "{", "b", "}", "c">>), Arr(<<>>), Arr(<<GoodResult>>),
              Obj(<< <<<<"rating">>, Str(<<"Safe">>)>>,
                     <<<<"rating">>, Str(<<"Risky">>)>> >>)}

Before == {<<>>, <<"Sure", ":", "NL">>}
After == {<<>>, <<" ", "Done">>}

ReplyTexts ==
    {p \o Ser(x) \o a : p \in Before, x \in ResultValues, a \in After}
        \cup {<<"Sure">>, <<"{">>, <<"}", " ", "{">>, <<"{", "}", "}">>,
              Ser(GoodResult) \o <<" ", "and", " ">> \o Ser(GoodResult),
              <<"{", DQ, "rating", DQ, ":", "Safe", "}">>,
              <<"{", DQ, "rating", DQ, ":", DQ, "Safe", "}">>,
              <<"[", "5", ",", "]">>, <<" ", "5", "NL">>}

Outcomes ==
    {Rejected, Data(Undef), Data(Null), Data(Str(<<>>))}
        \cup {Data(Str(t)) : t \in ReplyTexts}

SampleRequests ==
    {Post("c1", "", JsonBodyOf(Str(Plain(MinLen)), Undef))}

----------------------------------------------------------------------------
(* The server *)

TickMs == WindowMs \div 2

Init ==
    /\ now = 0
    /\ store = [c \in Clients |-> [hits |-> 0, resetTime |-> 0]]
    /\ allowed \in {{}, {"https://a.example"}}
    /\ conn = [s \in Slots |-> Idle]
    /\ window = [c \in Clients |-> [start |-> 0, count |-> 0, skipped |-> 0]]

\* A request arrives on an idle slot and runs the chain, to its response or
\* to the handler's await.
Serve(s, req) ==
    /\ conn[s].stage = "idle"
    /\ LET ctx == RunChain(1, StartCtx(req, store), now, allowed)
           seen == \E i \in 1..Len(ctx.trace) : ctx.trace[i] = "limiter"
           w == Arrival(window[req.client], now, seen)
       IN  /\ w.count <= Cap(req.client)
           /\ w.skipped <= MaxSkipped
           /\ ctx.store[req.client].hits <= Cap(req.client)
           /\ window' = [window EXCEPT ![req.client] = w]
           /\ store' = ctx.store
           /\ conn' = [conn EXCEPT ![s] =
                         [Idle EXCEPT !.stage = IF ctx.awaiting THEN "awaiting"
                                                ELSE "done",
                                      !.req = req, !.trace = ctx.trace,
                                      !.nth = w.count, !.prompt = ctx.prompt,
                                      !.resp = ctx.resp]]
    /\ UNCHANGED <<now, allowed>>

\* The completion service answers the call of the request on slot s.
Finish(s, outcome) ==
    /\ conn[s].stage = "awaiting"
    /\ LET r == Complete(outcome)
       IN  conn' = [conn EXCEPT ![s].stage = "done", ![s].reply = outcome,
                                ![s].parsed = r.parsed,
                                ![s].fallback = r.fallback, ![s].resp = r.resp]
    /\ UNCHANGED <<now, store, allowed, window>>

Request == \E s \in Slots, req \in Requests : Serve(s, req)

CompletionReturns == \E s \in Slots, o \in SmallOutcomes : Finish(s, o)

\* The response is sent and the slot is free again.
Close ==
    \E s \in Slots :
        /\ conn[s].stage = "done"
        /\ conn' = [conn EXCEPT ![s] = Idle]
        /\ UNCHANGED <<now, store, allowed, window>>

Tick ==
    /\ now < MaxTicks * TickMs
    /\ now' = now + TickMs
    /\ UNCHANGED <<store, allowed, conn, window>>

Next == Request \/ CompletionReturns \/ Close \/ Tick

Spec == Init /\ [][Next]_vars

\* The server started with no ALLOWED_ORIGINS.
InitOpen == Init /\ allowed = {}

\* The handler on every request text: one request, its completion.
RequestText == \E req \in TextRequests : Serve(1, req)

NextValidate == RequestText \/ CompletionReturns

SpecValidate == InitOpen /\ [][NextValidate]_vars

\* The handler on every outcome of the completion service.
RequestSample == \E req \in SampleRequests : Serve(1, req)

CompletionReturnsAny == \E o \in Outcomes : Finish(1, o)

NextComplete == RequestSample \/ CompletionReturnsAny

SpecComplete == InitOpen /\ [][NextComplete]_vars

----------------------------------------------------------------------------
(* Properties *)

\* The request on the slot was given to POST /summarize.
Handled(c) ==
    /\ c.stage # "idle"
    /\ c.req.method = "POST" /\ c.req.path = "/summarize"
    /\ c.trace # <<>> /\ c.trace[Len(c.trace)] = "route"

\* The handler of the request has resumed after its await and answered.
Answered(c) == Handled(c) /\ c.stage = "done" /\ c.prompt.language # ""

\* The reply's text, for a reply that carries one.
HasText(c) == c.reply.k = "data" /\ Kind(c.reply.content) = "str" /\ Payload(c.reply.content) # <<>>

RatingValues == {Str(<<"Secure">>), Str(<<"Risky">>), Str(<<"Not", " ", "secure">>)}

\* C1: every 200 response of POST /summarize carries a rating, and the rating
\* is "Secure", "Risky" or "Not secure".
C1_RatingClosed ==
    \A s \in Slots :
        Answered(conn[s]) /\ conn[s].resp.status = 200
            => /\ "rating" \in conn[s].resp.has
               /\ conn[s].resp.rating \in RatingValues

\* The span from the first opening brace to the last closing brace of t, as
\* a set of at most one sequence.
GreedySpans(t) ==
    LET opens == {i \in 1..Len(t) : t[i] = "{"}
        closes == {i \in 1..Len(t) : t[i] = "}"}
    IN  {SubSeq(t, i, j) : <<i, j>> \in
            {<<a, b>> \in opens \X closes :
                /\ \A o \in opens : a <= o
                /\ \A x \in closes : x <= b
                /\ a < b}}

HasBrace(t) == \E i \in 1..Len(t) : t[i] \in {"{", "}"}

\* C2 as stated: a rejected call, a reply without text, a text without any
\* brace and a text whose brace span is no JSON are all answered 500
\* { error: "Internal server error" } and nothing else.
C2_FailuresAre500 ==
    \A s \in Slots :
        LET c == conn[s]
        IN  Answered(c)
            /\ (\/ c.reply.k = "error"
                \/ ~Truthy(c.reply.content)
                \/ HasText(c) /\ ~HasBrace(Payload(c.reply.content))
                \/ HasText(c) /\ \E g \in GreedySpans(Payload(c.reply.content)) :
                                    ~JSONParse(g).ok)
            => c.resp = InternalError

\* The failures of the handler after its call: the call is rejected, the
\* reply has no text, the text is no JSON and has no brace span that is, or
\* the text is the JSON null.
Failure(c) ==
    \/ c.reply.k = "error"
    \/ ~Truthy(c.reply.content)
    \/ /\ HasText(c)
       /\ ~JSONParse(Payload(c.reply.content)).ok
       /\ \A g \in GreedySpans(Payload(c.reply.content)) : ~JSONParse(g).ok
    \/ /\ HasText(c)
       /\ JSONParse(Payload(c.reply.content)).ok
       /\ JSONParse(Payload(c.reply.content)).val = Null

\* C2, amended: every failure of the handler after its call is answered 500
\* with the body { error: "Internal server error" }, where a text without
\* braces or with a broken brace span is a failure only if the whole text is
\* no JSON either.
C2_Amended ==
    \A s \in Slots :
        Answered(conn[s]) /\ Failure(conn[s])
            => /\ conn[s].resp.status = 500
               /\ conn[s].resp.has = {"error"}
               /\ conn[s].resp.error = "Internal server error"

C2_Witness ==
    \E s \in Slots :
        /\ Answered(conn[s]) /\ HasText(conn[s])
        /\ ~JSONParse(Payload(conn[s].reply.content)).ok
        /\ GreedySpans(Payload(conn[s].reply.content)) # {}
        /\ conn[s].resp = InternalError

\* C3: of a client's requests within one window the first 30 are not
\* answered 429, and the 31st and every later one is answered 429 with the
\* limiter's message.
C3_FirstThirtyPass ==
    \A s \in Slots :
        LET c == conn[s]
        IN  c.stage # "idle"
            => /\ c.nth <= Max => c.resp.status # 429
               /\ c.nth > Max =>
                    c.resp = ErrorResp(429, "Too many requests, please try again later.")

\* The text of the request on the slot is a string.
TextIsString(c) == c.req.body.k = "json" /\ Kind(c.req.body.text) = "str"

TooLong == ErrorResp(400, "Text too long")
TooShort == ErrorResp(400, "Text too short")
InvalidPayload == ErrorResp(400, "Invalid payload: text required")

\* The request was refused with resp before any prompt was built or sent.
Refused(c, resp) == c.stage = "done" /\ c.resp = resp /\ c.prompt = NoPrompt

\* C4 as stated: a text whose raw length exceeds 20000 is answered
\* 400 "Text too long" and the completion service is not called.
C4_RawLength ==
    \A s \in Slots :
        LET c == conn[s]
        IN  Handled(c) /\ TextIsString(c) /\ StrLen(Payload(c.req.body.text)) > MaxLen
            => Refused(c, TooLong)

\* C4, amended: a text whose trimmed length exceeds 20000 is answered
\* 400 "Text too long" and the completion service is not called.
C4_Amended ==
    \A s \in Slots :
        LET c == conn[s]
        IN  Handled(c) /\ TextIsString(c)
            /\ StrLen(Trim(Payload(c.req.body.text))) > MaxLen
            => Refused(c, TooLong)

C4_Witness ==
    \E s \in Slots :
        /\ Handled(conn[s]) /\ TextIsString(conn[s])
        /\ StrLen(Trim(Payload(conn[s].req.body.text))) = MaxLen + 1
        /\ Refused(conn[s], TooLong)

\* The prompt with the request's text was built and the service called.
Called(c) == c.stage \in {"awaiting", "done"} /\ c.prompt.language # ""

\* C5 as stated: every string of trimmed length below 50, the empty string
\* included, is answered 400 "Text too short"; trimmed length 50 reaches the
\* completion service; "Invalid payload" is answered to no string.
C5_ShortText ==
    \A s \in Slots :
        LET c == conn[s]
            n == StrLen(Trim(Payload(c.req.body.text)))
        IN  Handled(c)
            => /\ TextIsString(c) /\ n < MinLen => Refused(c, TooShort)
               /\ TextIsString(c) /\ n = MinLen => Called(c)
               /\ c.resp = InvalidPayload => ~TextIsString(c)

\* C5, amended: every non-empty string of trimmed length below 50 is
\* answered 400 "Text too short"; trimmed length 50 reaches the completion
\* service; "Invalid payload" is answered only to a text that is absent, no
\* string, or the empty string.
C5_Amended ==
    \A s \in Slots :
        LET c == conn[s]
            n == StrLen(Trim(Payload(c.req.body.text)))
        IN  Handled(c)
            => /\ TextIsString(c) /\ Payload(c.req.body.text) # <<>> /\ n < MinLen
                    => Refused(c, TooShort)
               /\ TextIsString(c) /\ n = MinLen => Called(c)
               /\ c.resp = InvalidPayload
                    => ~TextIsString(c) \/ Payload(c.req.body.text) = <<>>

C5_Witness ==
    \E s \in Slots :
        /\ Handled(conn[s]) /\ TextIsString(conn[s])
        /\ StrLen(Trim(Payload(conn[s].req.body.text))) = MinLen - 1
        /\ StrLen(Payload(conn[s].req.body.text)) >= MinLen
        /\ Refused(conn[s], TooShort)

\* The first k characters of a run-length encoded string, and the rest.
RECURSIVE TakeChars(_, _)
TakeChars(s, k) ==
    IF k = 0 \/ s = <<>> THEN <<>>
    ELSE <<s[1].c>>
         \o TakeChars(IF s[1].n = 1 THEN Tail(s)
                      ELSE <<Run(s[1].c, s[1].n - 1)>> \o Tail(s), k - 1)

RECURSIVE DropChars(_, _)
DropChars(s, k) ==
    IF k = 0 \/ s = <<>> THEN s
    ELSE DropChars(IF s[1].n = 1 THEN Tail(s)
                   ELSE <<Run(s[1].c, s[1].n - 1)>> \o Tail(s), k - 1)

Entities == {Entity(c) : c \in {"&", "<", ">", "/", "QUOTE", "APOS", "BACKSLASH", "BACKTICK"}}

\* Every & of s is the first character of a complete entity.
RECURSIVE EntitiesComplete(_)
EntitiesComplete(s) ==
    IF s = <<>> THEN TRUE
    ELSE IF s[1].c # "&" THEN EntitiesComplete(Tail(s))
    ELSE \E e \in Entities :
            /\ TakeChars(s, Len(e)) = e
            /\ EntitiesComplete(DropChars(s, Len(e)))

\* C6: the text embedded in the prompt is at most 20000 characters long, has
\* no < and no >, and each of its & starts a complete entity.
C6_SafeText ==
    \A s \in Slots :
        Called(conn[s])
            => /\ StrLen(conn[s].prompt.text) <= MaxLen
               /\ \A i \in 1..Len(conn[s].prompt.text) :
                    conn[s].prompt.text[i].c \notin {"<", ">"}
               /\ EntitiesComplete(conn[s].prompt.text)

\* The value the handler parses the reply's text to, by either attempt, as a
\* set of at most one value.
ParseResults(t) ==
    IF JSONParse(t).ok THEN {JSONParse(t).val}
    ELSE {JSONParse(g).val : g \in {x \in GreedySpans(t) : JSONParse(x).ok}}

ResultFields == {"summary", "bullets", "rating"}

\* C7: whatever value the reply's text parses to, the request is answered 200
\* with summary, bullets and rating, each the parsed value's or its default.
C7_NormalizeTotal ==
    \A s \in Slots :
        LET c == conn[s]
        IN  Answered(c) /\ HasText(c)
            => \A x \in ParseResults(Payload(c.reply.content)) :
                /\ c.resp.status = 200
                /\ c.resp.has = ResultFields
                /\ ~Truthy(Get(x, <<"summary">>)) => c.resp.summary = Str(<<>>)
                /\ ~Truthy(Get(x, <<"rating">>)) => c.resp.rating = Str(<<"Risky">>)
                /\ ~IsArray(Get(x, <<"bullets">>)) => c.resp.bullets = <<>>

BulletTypes == {Str(<<"pro">>), Str(<<"con">>), Str(<<"warning">>)}

\* The type the claim gives a bullet made from element b of the reply.
ExpectedType(b) ==
    LET t == Get(b, <<"type">>)
    IN  IF Kind(b) \in {"null", "undef"} \/ ~Truthy(t) THEN Str(<<"con">>)
        ELSE IF ToLowerCase(ToStr(t)) = <<"pro">> THEN Str(<<"pro">>)
        ELSE IF ToLowerCase(ToStr(t)) = <<"warning">> THEN Str(<<"warning">>)
        ELSE Str(<<"con">>)

\* C8: in every 200 response of POST /summarize each bullet has a type among
\* "pro", "con", "warning" and a string as text; there is one bullet per
\* element of the reply's bullets, its type the element's lower-cased type
\* when that is "pro" or "warning" and "con" otherwise.
C8_Bullets ==
    \A s \in Slots :
        LET c == conn[s]
            given == Get(c.parsed, <<"bullets">>)
        IN  Answered(c) /\ c.resp.status = 200
            => /\ \A i \in 1..Len(c.resp.bullets) :
                    /\ c.resp.bullets[i].type \in BulletTypes
                    /\ Kind(c.resp.bullets[i].text) = "str"
               /\ IsArray(given)
                    => /\ Len(c.resp.bullets) = Len(Payload(given))
                       /\ \A i \in 1..Len(Payload(given)) :
                            c.resp.bullets[i].type = ExpectedType(Payload(given)[i])

C8_Witness ==
    \E s \in Slots :
        LET c == conn[s]
            given == Get(c.parsed, <<"bullets">>)
        IN  /\ Answered(c) /\ c.resp.status = 200
            /\ IsArray(given) /\ Len(Payload(given)) = 2
            /\ Payload(given)[1] = Null
            /\ Get(Payload(given)[2], <<"type">>) = Str(<<"PRO">>)
            /\ c.resp.bullets[1].type = Str(<<"con">>)
            /\ c.resp.bullets[2].type = Str(<<"pro">>)

\* C9: a text that is JSON as a whole is parsed as a whole, without the
\* fallback; any other text whose span from its first { to its last } is
\* JSON is parsed to that span's value and answered 200; every other text is
\* answered 500.
C9_TwoAttempts ==
    \A s \in Slots :
        LET c == conn[s]
            t == Payload(c.reply.content)
            spans == {g \in GreedySpans(t) : JSONParse(g).ok}
        IN  Answered(c) /\ HasText(c)
            => IF JSONParse(t).ok
               THEN ~c.fallback /\ c.parsed = JSONParse(t).val
               ELSE IF spans # {}
               THEN /\ c.fallback
                    /\ \A g \in spans : c.parsed = JSONParse(g).val
                    /\ c.resp.status = 200
               ELSE c.resp = InternalError

C9_Witness ==
    \E s \in Slots :
        LET c == conn[s]
        IN  /\ Answered(c) /\ HasText(c)
            /\ Payload(c.reply.content)[1] = "Sure"
            /\ c.fallback /\ c.resp.status = 200
            /\ Len(c.resp.bullets) > 0

\* C10: the limiter and the origin check run before the body is read, a
\* request answered 429 or refused for its origin has not had its body read,
\* and the limiter sees every request.
C10_AdmissionFirst ==
    \A s \in Slots :
        LET c == conn[s]
            at(name) == {i \in 1..Len(c.trace) : c.trace[i] = name}
        IN  c.stage # "idle"
            => /\ at("limiter") # {}
               /\ \A j \in at("json") :
                    /\ \E i \in at("limiter") : i < j
                    /\ \E i \in at("cors") : i < j

=============================================================================
